---- MODULE Spec2Model ----
\* Layer chain of the network engine (include/layer.h): layer_base, the
\* sentinel input_layer and the layers container, driven by one sequential
\* caller.
EXTENDS Integers, Sequences, FiniteSets, TLC

\* ---------------------------------------------------------------- bounds

\* number of layer objects the driver owns besides the container's sentinel
NumReal == 2
\* number of calls the driver makes on the chain during one run
MaxOps == 3

\* ---------------------------------------------------------------- objects

\* the null pointer (next_(0), prev_(0), head_(0), tail_(0))
NULL == 0
\* the container's own member first_
First == 1
RealLayers == 2..(NumReal + 1)
Layers == {First} \cup RealLayers

\* constructor arguments (in_dim, out_dim, weight_dim, bias_dim) of the
\* driver's layers in the structural specification: layers without learnable
\* parameters
LinkShapes ==
    { [in |-> 3, out |-> 2, w |-> 0, b |-> 0],
      [in |-> 2, out |-> 1, w |-> 0, b |-> 0],
      [in |-> 2, out |-> 2, w |-> 0, b |-> 0] }

\* the walk log keeps one entry more than there are layers, so that a second
\* visit of a layer is recorded
MaxLog == NumReal + 2

VARIABLES
    in_size_, out_size_,        \* layer -> int
    next_, prev_,               \* layer -> layer or NULL
    output_, prev_delta_, prev_delta2_,
    W_, b_, Whessian_, bhessian_,
    head_, tail_,               \* layers::head_, layers::tail_
    pc,                         \* the driver's position: "idle" or inside a walk
    cur,                        \* the walk's local variable l
    den,                        \* the walk's argument denominator
    log,                        \* layers the current (or last) walk has called
    Hpre, bHpre,                \* Hessians when the current (or last) walk began
    last,                       \* the call the driver made last, and its outcome
    arg, ret,                   \* argument and returned vector of the last propagation call
    sub,                        \* the call that propagation call made on the successor
    upd,                        \* times that propagation call invoked the updater
    nsamp,                      \* layer -> samples added to its Hessians since they were zeroed
    nops                        \* calls made so far

links == <<next_, prev_>>
sizes == <<in_size_, out_size_>>
buffers == <<output_, prev_delta_, prev_delta2_>>
params == <<W_, b_>>
hessians == <<Whessian_, bhessian_>>
chain == <<head_, tail_>>
walk_rest == <<cur, den, log, Hpre, bHpre>>
walk == <<pc, walk_rest>>
prop == <<arg, ret, sub, upd>>
vars == <<sizes, links, buffers, params, hessians, chain, walk, last, prop, nsamp, nops>>

\* ---------------------------------------------------------------- reals

\* a real is kept exactly, as a fraction <<numerator, denominator>> in lowest
\* terms with a positive denominator
RECURSIVE GCD(_, _)
GCD(x, y) == IF y = 0 THEN x ELSE GCD(y, x % y)

Abs(x) == IF x < 0 THEN -x ELSE x

Frac(n, d) ==
    LET s == IF d < 0 THEN -1 ELSE 1
        g == GCD(Abs(n), Abs(d))
    IN  <<(s * n) \div g, (s * d) \div g>>

Real(i) == <<i, 1>>
\* x / n for an int n # 0 converted to float_t
RDiv(x, n) == Frac(x[1], x[2] * n)
RAdd(x, y) == Frac(x[1] * y[2] + y[1] * x[2], x[2] * y[2])

\* vec_t::resize(n) on an empty vector: n value-initialised elements
Zeros(n) == [i \in 1..n |-> Real(0)]

\* ---------------------------------------------------------------- layer_base

\* the fields set_size(in_dim, out_dim, weight_dim, bias_dim) sets
set_size(in_dim, out_dim, weight_dim, bias_dim) ==
    [ in_size     |-> in_dim,
      out_size    |-> out_dim,
      output      |-> Zeros(out_dim),
      prev_delta  |-> Zeros(in_dim),
      W           |-> Zeros(weight_dim),
      b           |-> Zeros(bias_dim),
      Whessian    |-> Zeros(weight_dim),
      bhessian    |-> Zeros(bias_dim),
      prev_delta2 |-> Zeros(in_dim) ]

\* layer_base(in_dim, out_dim, weight_dim, bias_dim): null links, set_size
layer_base(in_dim, out_dim, weight_dim, bias_dim) ==
    [ next |-> NULL, prev |-> NULL,
      f |-> set_size(in_dim, out_dim, weight_dim, bias_dim) ]

\* input_layer(): layer<identity_activation>(0, 0, 0, 0)
input_layer == layer_base(0, 0, 0, 0)

in_size(l) == in_size_[l]
out_size(l) == out_size_[l]

\* the condition under which this->connect(tail) throws nn_error
ConnectThrows_OutVsOut(this, tail) ==
    out_size(this) # 0 /\ out_size(tail) # out_size(this)
ConnectThrows_Never(this, tail) == FALSE
ConnectThrows(this, tail) ==
    out_size(this) # 0 /\ in_size(tail) # out_size(this)

\* this->connect(tail) on the links nx, pv: the links afterwards, and whether
\* the call threw
connect_LinkBeforeCheck(nx, pv, this, tail) ==
    [ next |-> [nx EXCEPT ![this] = tail],
      prev |-> [pv EXCEPT ![tail] = this],
      err  |-> ConnectThrows(this, tail) ]
connect_NextOnly(nx, pv, this, tail) ==
    IF ConnectThrows(this, tail)
    THEN [next |-> nx, prev |-> pv, err |-> TRUE]
    ELSE [ next |-> [nx EXCEPT ![this] = tail],
           prev |-> pv,
           err  |-> FALSE ]
connect(nx, pv, this, tail) ==
    IF ConnectThrows(this, tail)
    THEN [next |-> nx, prev |-> pv, err |-> TRUE]
    ELSE [ next |-> [nx EXCEPT ![this] = tail],
           prev |-> [pv EXCEPT ![tail] = this],
           err  |-> FALSE ]

\* ---------------------------------------------------------------- layers

\* layers::add(new_tail) on the container state (hd, tl) and the links: head_
\* is set first, the connect may throw, and only then tail_ is set
add_HeadAlways(hd, tl, nx, pv, new_tail) ==
    LET c  == IF tl # NULL THEN connect(nx, pv, tl, new_tail)
                           ELSE [next |-> nx, prev |-> pv, err |-> FALSE]
    IN  [ head |-> new_tail,
          tail |-> IF c.err THEN tl ELSE new_tail,
          next |-> c.next, prev |-> c.prev, err |-> c.err ]
add_TailFirst(hd, tl, nx, pv, new_tail) ==
    LET h1 == IF hd = NULL THEN new_tail ELSE hd
        c  == IF tl # NULL THEN connect(nx, pv, tl, new_tail)
                           ELSE [next |-> nx, prev |-> pv, err |-> FALSE]
    IN  [ head |-> h1, tail |-> new_tail,
          next |-> c.next, prev |-> c.prev, err |-> c.err ]
add_Prepend(hd, tl, nx, pv, new_tail) ==
    LET h1 == IF hd = NULL THEN new_tail ELSE hd
        c  == IF tl # NULL THEN connect(nx, pv, new_tail, tl)
                           ELSE [next |-> nx, prev |-> pv, err |-> FALSE]
    IN  [ head |-> h1,
          tail |-> IF c.err THEN tl ELSE new_tail,
          next |-> c.next, prev |-> c.prev, err |-> c.err ]
add(hd, tl, nx, pv, new_tail) ==
    LET h1 == IF hd = NULL THEN new_tail ELSE hd
        c  == IF tl # NULL THEN connect(nx, pv, tl, new_tail)
                           ELSE [next |-> nx, prev |-> pv, err |-> FALSE]
    IN  [ head |-> h1,
          tail |-> IF c.err THEN tl ELSE new_tail,
          next |-> c.next, prev |-> c.prev, err |-> c.err ]

\* layers::empty()
empty == head_ = NULL
\* layers::head(), layers::tail()
head == head_
tail == tail_

\* ---------------------------------------------------------------- construction

\* no call was made on a successor
NoCall == [callee |-> NULL, arg |-> <<>>, ret |-> <<>>]

Call(op, a, b, err) == [op |-> op, a |-> a, b |-> b, err |-> err]

\* the driver's layers are constructed with the shapes sh; the container is
\* constructed: layers() : head_(0), tail_(0) { add(&first_); }
InitWith(Shapes) ==
    \E sh \in [RealLayers -> Shapes] :
        LET obj == [l \in Layers |->
                      IF l = First THEN input_layer
                      ELSE layer_base(sh[l].in, sh[l].out, sh[l].w, sh[l].b)]
            r   == add(NULL, NULL, [l \in Layers |-> obj[l].next],
                       [l \in Layers |-> obj[l].prev], First)
        IN  /\ in_size_ = [l \in Layers |-> obj[l].f.in_size]
            /\ out_size_ = [l \in Layers |-> obj[l].f.out_size]
            /\ output_ = [l \in Layers |-> obj[l].f.output]
            /\ prev_delta_ = [l \in Layers |-> obj[l].f.prev_delta]
            /\ prev_delta2_ = [l \in Layers |-> obj[l].f.prev_delta2]
            /\ W_ = [l \in Layers |-> obj[l].f.W]
            /\ b_ = [l \in Layers |-> obj[l].f.b]
            /\ Whessian_ = [l \in Layers |-> obj[l].f.Whessian]
            /\ bhessian_ = [l \in Layers |-> obj[l].f.bhessian]
            /\ next_ = r.next
            /\ prev_ = r.prev
            /\ head_ = r.head
            /\ tail_ = r.tail
            /\ pc = "idle"
            /\ cur = NULL
            /\ den = 1
            /\ log = <<>>
            /\ Hpre = <<>>
            /\ bHpre = <<>>
            /\ last = Call("layers", NULL, First, r.err)
            /\ arg = <<>>
            /\ ret = <<>>
            /\ sub = NoCall
            /\ upd = 0
            /\ nsamp = [l \in Layers |-> 0]
            /\ nops = 0

Init == InitWith(LinkShapes)

\* ---------------------------------------------------------------- driver calls

CanCall == pc = "idle" /\ nops < MaxOps

\* what is remembered of a walk (its argument, the calls it made, the
\* Hessians it found) is kept until the driver's next call
ForgetWalk ==
    /\ den' = 1
    /\ log' = <<>>
    /\ Hpre' = <<>>
    /\ bHpre' = <<>>
    /\ UNCHANGED <<pc, cur>>

\* the driver calls a->connect(b)
Connect(a, b) ==
    /\ CanCall
    /\ LET r == connect(next_, prev_, a, b)
       IN  /\ next_' = r.next
           /\ prev_' = r.prev
           /\ last' = Call("connect", a, b, r.err)
    /\ nops' = nops + 1
    /\ ForgetWalk
    /\ UNCHANGED <<sizes, buffers, params, hessians, chain, prop, nsamp>>

\* the driver calls add(new_tail) on the container
Add(new_tail) ==
    /\ CanCall
    /\ LET r == add(head_, tail_, next_, prev_, new_tail)
       IN  /\ head_' = r.head
           /\ tail_' = r.tail
           /\ next_' = r.next
           /\ prev_' = r.prev
           /\ last' = Call("add", tail_, new_tail, r.err)
    /\ nops' = nops + 1
    /\ ForgetWalk
    /\ UNCHANGED <<sizes, buffers, params, hessians, prop, nsamp>>

\* ---------------------------------------------------------------- the chain

\* the layers reached from l along next_, at most fuel of them
RECURSIVE PathFrom(_, _)
PathFrom(l, fuel) ==
    IF l = NULL \/ fuel = 0 THEN <<>>
    ELSE <<l>> \o PathFrom(next_[l], fuel - 1)

NumLayers == Cardinality(Layers)
\* following next_ from head_ ends at a null link
IsChain == Len(PathFrom(head_, NumLayers + 1)) <= NumLayers
\* the chain from head_ to the layer whose next_ is null
ChainSeq == PathFrom(head_, NumLayers)

\* l is a layer of the chain
InChain(l) == \E i \in 1..Len(ChainSeq) : ChainSeq[i] = l

\* ---------------------------------------------------------------- walks

\* the random source: uniform_rand fills a range with draws from
\* [-weight_base, weight_base]; a draw is kept in units of weight_base
RandVals == {Real(-1), Real(1)}
RandVec(n) == [1..n -> RandVals]

\* l->init_weight() with the draws rw, rb: the layer's parameters afterwards
init_weight_KeepHessian(l, rw, rb) ==
    [ W |-> rw, b |-> rb, Whessian |-> Whessian_[l], bhessian |-> bhessian_[l] ]
init_weight(l, rw, rb) ==
    [ W |-> rw, b |-> rb,
      Whessian |-> [i \in DOMAIN Whessian_[l] |-> Real(0)],
      bhessian |-> [i \in DOMAIN bhessian_[l] |-> Real(0)] ]

\* l->divide_hessian(denominator): the layer's Hessians afterwards
divide_hessian_WeightOnly(l, denominator) ==
    [ Whessian |-> [i \in DOMAIN Whessian_[l] |-> RDiv(Whessian_[l][i], denominator)],
      bhessian |-> bhessian_[l] ]
divide_hessian_FirstOnly(l, denominator) ==
    [ Whessian |-> [i \in DOMAIN Whessian_[l] |->
                      IF i = 1 THEN RDiv(Whessian_[l][i], denominator)
                               ELSE Whessian_[l][i]],
      bhessian |-> [i \in DOMAIN bhessian_[l] |-> RDiv(bhessian_[l][i], denominator)] ]
divide_hessian(l, denominator) ==
    [ Whessian |-> [i \in DOMAIN Whessian_[l] |-> RDiv(Whessian_[l][i], denominator)],
      bhessian |-> [i \in DOMAIN bhessian_[l] |-> RDiv(bhessian_[l][i], denominator)] ]

\* a call made by a walk is recorded; a full log starts over with the call
Logged(l) == IF Len(log) < MaxLog THEN Append(log, l) ELSE <<l>>

\* where a walk starts, and where it goes from l
WalkFirst_SkipHead == IF head_ = NULL THEN NULL ELSE next_[head_]
WalkFirst == head_
WalkNext_Back(l) == prev_[l]
WalkNext(l) == next_[l]

\* layers::reset(): layer_base *l = head_;
ResetBegin ==
    /\ CanCall
    /\ pc' = "reset"
    /\ cur' = WalkFirst
    /\ log' = <<>>
    /\ Hpre' = Whessian_
    /\ bHpre' = bhessian_
    /\ last' = Call("reset", NULL, NULL, FALSE)
    /\ nops' = nops + 1
    /\ UNCHANGED <<sizes, links, buffers, params, hessians, chain, den, prop, nsamp>>

\* while (l) { l->reset(); l = l->next_; }, one turn; reset() is init_weight()
ResetStep ==
    /\ pc = "reset"
    /\ cur # NULL
    /\ \E rw \in RandVec(Len(W_[cur])), rb \in RandVec(Len(b_[cur])) :
         LET r == init_weight(cur, rw, rb)
         IN  /\ W_' = [W_ EXCEPT ![cur] = r.W]
             /\ b_' = [b_ EXCEPT ![cur] = r.b]
             /\ Whessian_' = [Whessian_ EXCEPT ![cur] = r.Whessian]
             /\ bhessian_' = [bhessian_ EXCEPT ![cur] = r.bhessian]
    /\ nsamp' = [nsamp EXCEPT ![cur] = 0]
    /\ log' = Logged(cur)
    /\ cur' = WalkNext(cur)
    /\ UNCHANGED <<sizes, links, buffers, chain, pc, den, Hpre, bHpre, last, prop, nops>>

\* the loop of layers::reset() ends and the call returns
ResetReturn ==
    /\ pc = "reset"
    /\ cur = NULL
    /\ pc' = "idle"
    /\ last' = Call("reset", NULL, NULL, FALSE)
    /\ UNCHANGED <<sizes, links, buffers, params, hessians, chain, cur, den, log,
                   Hpre, bHpre, prop, nsamp, nops>>

\* the denominators the driver passes (0 is outside the contract)
MaxDenominator == 2
Denominators == (-1..MaxDenominator) \ {0}

\* layers::divide_hessian(denominator): layer_base *l = head_;
DivideBegin(denominator) ==
    /\ CanCall
    /\ pc' = "divide_hessian"
    /\ cur' = WalkFirst
    /\ den' = denominator
    /\ log' = <<>>
    /\ Hpre' = Whessian_
    /\ bHpre' = bhessian_
    /\ last' = Call("divide_hessian", NULL, NULL, FALSE)
    /\ nops' = nops + 1
    /\ UNCHANGED <<sizes, links, buffers, params, hessians, chain, prop, nsamp>>

\* while (l) { l->divide_hessian(denominator); l = l->next_; }, one turn
DivideStep ==
    /\ pc = "divide_hessian"
    /\ cur # NULL
    /\ LET r == divide_hessian(cur, den)
       IN  /\ Whessian_' = [Whessian_ EXCEPT ![cur] = r.Whessian]
           /\ bhessian_' = [bhessian_ EXCEPT ![cur] = r.bhessian]
    /\ log' = Logged(cur)
    /\ cur' = WalkNext(cur)
    /\ UNCHANGED <<sizes, links, buffers, params, chain, pc, den, Hpre, bHpre,
                   last, prop, nsamp, nops>>

\* the loop of layers::divide_hessian() ends and the call returns
DivideReturn ==
    /\ pc = "divide_hessian"
    /\ cur = NULL
    /\ pc' = "idle"
    /\ last' = Call("divide_hessian", NULL, NULL, FALSE)
    /\ UNCHANGED <<sizes, links, buffers, params, hessians, chain, cur, den, log,
                   Hpre, bHpre, prop, nsamp, nops>>

\* ---------------------------------------------------------------- the structural specification

Next ==
    \/ \E a, b \in Layers : Connect(a, b)
    \/ \E l \in Layers : Add(l)
    \/ ResetBegin
    \/ ResetStep
    \/ ResetReturn
    \/ \E n \in Denominators : DivideBegin(n)
    \/ DivideStep
    \/ DivideReturn

Spec == Init /\ [][Next]_vars

\* ---------------------------------------------------------------- input_layer propagation

\* longest vector the driver passes
MaxLen == 1
\* the vectors the driver passes and a successor returns
Vecs == UNION { [1..n -> {Real(1), Real(2)}] : n \in 0..MaxLen }

\* first_.forward_propagation(in), r being what next_->forward_propagation
\* returns when there is a successor: output_ afterwards, the call made on the
\* successor, the vector returned
forward_propagation_KeepsOutput(in, r) ==
    [ output |-> output_[First],
      sub    |-> IF next_[First] # NULL
                 THEN [callee |-> next_[First], arg |-> in, ret |-> r]
                 ELSE NoCall,
      ret    |-> IF next_[First] # NULL THEN r ELSE in ]
forward_propagation_OwnOutput(in, r) ==
    [ output |-> in, sub |-> NoCall, ret |-> in ]
forward_propagation_StaleInput(in, r) ==
    [ output |-> in,
      sub    |-> IF next_[First] # NULL
                 THEN [callee |-> next_[First], arg |-> output_[First], ret |-> r]
                 ELSE NoCall,
      ret    |-> IF next_[First] # NULL THEN r ELSE in ]
forward_propagation(in, r) ==
    [ output |-> in,
      sub    |-> IF next_[First] # NULL
                 THEN [callee |-> next_[First], arg |-> in, ret |-> r]
                 ELSE NoCall,
      ret    |-> IF next_[First] # NULL THEN r ELSE in ]

\* first_.back_propagation(current_delta, l): the vector returned, the times
\* the updater l is invoked, and prev_delta_ afterwards
back_propagation_Updates(current_delta) ==
    [ ret |-> current_delta, upd |-> 1, prev_delta |-> prev_delta_[First] ]
back_propagation_StoresDelta(current_delta) ==
    [ ret |-> prev_delta_[First], upd |-> 0, prev_delta |-> current_delta ]
back_propagation(current_delta) ==
    [ ret |-> current_delta, upd |-> 0, prev_delta |-> prev_delta_[First] ]

\* first_.back_propagation_2nd(current_delta2): the vector returned and
\* prev_delta2_ afterwards
back_propagation_2nd(current_delta2) ==
    [ ret |-> current_delta2, prev_delta2 |-> prev_delta2_[First] ]

\* the driver calls head()->forward_propagation(v); the successor, if any, is
\* one of the driver's layers, whose forward_propagation is pure virtual
\* here: it returns some vector r
Forward(v) ==
    /\ CanCall
    /\ next_[First] # First
    /\ \E r \in IF next_[First] = NULL THEN {<<>>} ELSE Vecs :
         LET f == forward_propagation(v, r)
         IN  /\ output_' = [output_ EXCEPT ![First] = f.output]
             /\ sub' = f.sub
             /\ ret' = f.ret
    /\ arg' = v
    /\ upd' = 0
    /\ last' = Call("forward_propagation", First, NULL, FALSE)
    /\ nops' = nops + 1
    /\ ForgetWalk
    /\ UNCHANGED <<sizes, links, prev_delta_, prev_delta2_, params, hessians,
                   chain, nsamp>>

\* the sentinel is its own successor: forward_propagation calls itself
\* without end and never returns
ForwardDiverges(v) ==
    /\ CanCall
    /\ next_[First] = First
    /\ output_' = [output_ EXCEPT ![First] = v]
    /\ pc' = "diverged"
    /\ arg' = v
    /\ last' = Call("forward_propagation", First, NULL, FALSE)
    /\ nops' = nops + 1
    /\ UNCHANGED <<sizes, links, prev_delta_, prev_delta2_, params, hessians,
                   chain, walk_rest, ret, sub, upd, nsamp>>

\* the driver calls head()->back_propagation(d, updater)
Back(d) ==
    /\ CanCall
    /\ LET r == back_propagation(d)
       IN  /\ ret' = r.ret
           /\ upd' = r.upd
           /\ prev_delta_' = [prev_delta_ EXCEPT ![First] = r.prev_delta]
    /\ arg' = d
    /\ sub' = NoCall
    /\ last' = Call("back_propagation", First, NULL, FALSE)
    /\ nops' = nops + 1
    /\ ForgetWalk
    /\ UNCHANGED <<sizes, links, output_, prev_delta2_, params, hessians,
                   chain, nsamp>>

\* the driver calls head()->back_propagation_2nd(d2)
Back2nd(d2) ==
    /\ CanCall
    /\ LET r == back_propagation_2nd(d2)
       IN  /\ ret' = r.ret
           /\ prev_delta2_' = [prev_delta2_ EXCEPT ![First] = r.prev_delta2]
    /\ arg' = d2
    /\ sub' = NoCall
    /\ upd' = 0
    /\ last' = Call("back_propagation_2nd", First, NULL, FALSE)
    /\ nops' = nops + 1
    /\ ForgetWalk
    /\ UNCHANGED <<sizes, links, output_, prev_delta_, params, hessians,
                   chain, nsamp>>

\* the propagation specification: the chain is built by add, and the driver
\* propagates through the sentinel
NextProp ==
    \/ \E l \in Layers : Add(l)
    \/ \E v \in Vecs : Forward(v)
    \/ \E v \in Vecs : ForwardDiverges(v)
    \/ \E d \in Vecs : Back(d)
    \/ \E d \in Vecs : Back2nd(d)

SpecProp == Init /\ [][NextProp]_vars

\* ---------------------------------------------------------------- Hessian accumulation

\* constructor arguments of the driver's layers in the Hessian specification:
\* layers with weights and biases
ParamShapes ==
    { [in |-> 3, out |-> 2, w |-> 2, b |-> 0],
      [in |-> 2, out |-> 1, w |-> 0, b |-> 1] }

\* samples one second-order backward call adds to a layer's Hessians per pass
MaxSamples == 2
\* what one sample adds to an element of a Hessian
Samples == {Real(1), Real(2)}
SampleVec(n) == [1..n -> Samples]

\* the driver builds the chain before it uses it, from layers that were never
\* connected (a layer is connected at most once)
AddNew(new_tail) ==
    /\ last.op \in {"layers", "add"}
    /\ new_tail \in RealLayers
    /\ next_[new_tail] = NULL
    /\ prev_[new_tail] = NULL
    /\ new_tail # tail_
    /\ Add(new_tail)

\* number of Hessian elements of the layers before position k of the chain
RECURSIVE ParamsBefore(_)
ParamsBefore(k) ==
    IF k <= 1 THEN 0
    ELSE ParamsBefore(k - 1)
         + Len(Whessian_[ChainSeq[k - 1]]) + Len(bhessian_[ChainSeq[k - 1]])

ChainIndex(l) == CHOOSE k \in 1..Len(ChainSeq) : ChainSeq[k] = l

\* a second-order backward pass through the chain, tail to head:
\* back_propagation_2nd of each of the driver's layers (pure virtual here)
\* adds a sample into every element of the layer's Hessians. The driver
\* makes its passes on Hessians that were zeroed and not yet averaged: after
\* building the chain, after a reset, or after another pass
SecondOrderPass ==
    /\ pc = "idle"
    /\ last.op \in {"layers", "add", "reset", "back_propagation_2nd"}
    /\ IsChain
    /\ tail_ # First
    /\ \A k \in 1..Len(ChainSeq) : nsamp[ChainSeq[k]] < MaxSamples
    /\ \E s \in SampleVec(ParamsBefore(Len(ChainSeq) + 1)) :
         /\ Whessian_' = [l \in Layers |->
              IF InChain(l)
              THEN [i \in DOMAIN Whessian_[l] |->
                      RAdd(Whessian_[l][i], s[ParamsBefore(ChainIndex(l)) + i])]
              ELSE Whessian_[l]]
         /\ bhessian_' = [l \in Layers |->
              IF InChain(l)
              THEN [i \in DOMAIN bhessian_[l] |->
                      RAdd(bhessian_[l][i],
                           s[ParamsBefore(ChainIndex(l)) + Len(Whessian_[l]) + i])]
              ELSE bhessian_[l]]
    /\ nsamp' = [l \in Layers |-> IF InChain(l) THEN nsamp[l] + 1 ELSE nsamp[l]]
    /\ last' = Call("back_propagation_2nd", tail_, NULL, FALSE)
    /\ ForgetWalk
    /\ UNCHANGED <<sizes, links, buffers, params, chain, prop, nops>>

InitHess == InitWith(ParamShapes)

\* the Hessian specification: the chain is built from layers never connected
\* before, Hessians are accumulated, and the driver resets and averages
NextHess ==
    \/ \E l \in Layers : AddNew(l)
    \/ SecondOrderPass
    \/ ResetBegin
    \/ ResetStep
    \/ ResetReturn
    \/ \E n \in Denominators : DivideBegin(n)
    \/ DivideStep
    \/ DivideReturn

SpecHess == InitHess /\ [][NextHess]_vars

\* ---------------------------------------------------------------- calls on one layer

\* calls the driver makes in all when it also calls single layers
MaxLayerOps == MaxOps + 1

CanCallLayer == pc = "idle" /\ nops < MaxLayerOps

\* calls on single layers come last, and all go to the same layer
LayerCalls == {"init_weight", "layer_divide_hessian"}

\* the driver calls l->init_weight() on one of the layers
InitWeight(l) ==
    /\ CanCallLayer
    /\ last.op \in LayerCalls => l = last.a
    /\ \E rw \in RandVec(Len(W_[l])), rb \in RandVec(Len(b_[l])) :
         LET r == init_weight(l, rw, rb)
         IN  /\ W_' = [W_ EXCEPT ![l] = r.W]
             /\ b_' = [b_ EXCEPT ![l] = r.b]
             /\ Whessian_' = [Whessian_ EXCEPT ![l] = r.Whessian]
             /\ bhessian_' = [bhessian_ EXCEPT ![l] = r.bhessian]
    /\ nsamp' = [nsamp EXCEPT ![l] = 0]
    /\ last' = Call("init_weight", l, NULL, FALSE)
    /\ nops' = nops + 1
    /\ ForgetWalk
    /\ UNCHANGED <<sizes, links, buffers, chain, prop>>

\* the driver calls l->divide_hessian(denominator) on the layer it has
\* initialised
DivideHessian(l, denominator) ==
    /\ CanCallLayer
    /\ last.op \in LayerCalls
    /\ l = last.a
    /\ LET r == divide_hessian(l, denominator)
       IN  /\ Whessian_' = [Whessian_ EXCEPT ![l] = r.Whessian]
           /\ bhessian_' = [bhessian_ EXCEPT ![l] = r.bhessian]
    /\ den' = denominator
    /\ log' = <<>>
    /\ Hpre' = <<>>
    /\ bHpre' = <<>>
    /\ last' = Call("layer_divide_hessian", l, NULL, FALSE)
    /\ nops' = nops + 1
    /\ UNCHANGED <<sizes, links, buffers, params, chain, pc, cur, prop, nsamp>>

\* the layer specification: the chain is built, Hessians are accumulated, and
\* the driver initialises and divides single layers
NextLayer ==
    \/ \E l \in Layers : AddNew(l)
    \/ SecondOrderPass
    \/ \E l \in Layers : InitWeight(l)
    \/ \E l \in Layers, n \in Denominators : DivideHessian(l, n)

SpecLayer == InitHess /\ [][NextLayer]_vars

\* ---------------------------------------------------------------- adding fresh layers

\* the driver adds a layer that is not in the chain and was never connected,
\* at any time between the walks
AddFresh(new_tail) ==
    /\ new_tail \in RealLayers
    /\ next_[new_tail] = NULL
    /\ prev_[new_tail] = NULL
    /\ new_tail # tail_
    /\ Add(new_tail)

\* the building specification: fresh layers are added, and the container is
\* reset and its Hessians divided in between
NextBuild ==
    \/ \E l \in Layers : AddFresh(l)
    \/ ResetBegin
    \/ ResetStep
    \/ ResetReturn
    \/ \E n \in Denominators : DivideBegin(n)
    \/ DivideStep
    \/ DivideReturn

SpecBuild == Init /\ [][NextBuild]_vars

\* ---------------------------------------------------------------- walks that must end

\* the walking specification: any layer is added, the layers of the chain
\* included, and a walk that has begun takes its next step: the loops of
\* layers::reset and layers::divide_hessian run on without waiting
NextWalk ==
    \/ \E l \in Layers : Add(l)
    \/ ResetBegin
    \/ ResetStep
    \/ ResetReturn
    \/ \E n \in Denominators : DivideBegin(n)
    \/ DivideStep
    \/ DivideReturn

SpecWalk ==
    /\ Init
    /\ [][NextWalk]_vars
    /\ WF_vars(ResetStep) /\ WF_vars(ResetReturn)
    /\ WF_vars(DivideStep) /\ WF_vars(DivideReturn)

\* ---------------------------------------------------------------- what the claims speak of

\* the call the driver made last was a connect that returned normally, made
\* directly (a->connect(b)) or by add (tail_->connect(new_tail))
LastConnectOk ==
    /\ last.op \in {"connect", "add"}
    /\ last.a # NULL
    /\ ~last.err

IsPrefix(s, t) == Len(s) <= Len(t) /\ \A i \in 1..Len(s) : s[i] = t[i]

\* ---------------------------------------------------------------- C1

\* C1: a->connect(b) with a.out_size # 0 and a.out_size # b.in_size throws,
\* and a step that makes such a call leaves next_ and prev_ of every layer as
\* they were.
C1_MismatchThrowsLinksKept ==
    [][\A a, b \in Layers :
         ( /\ last'.op = "connect" /\ last'.a = a /\ last'.b = b
           /\ nops' = nops + 1
           /\ out_size_[a] # 0
           /\ out_size_[a] # in_size_[b] )
         => (last'.err /\ next_' = next_ /\ prev_' = prev_)]_vars

\* a mismatching connect has thrown on a layer that already had a successor
\* and towards a layer that already had a predecessor
C1_Witness ==
    /\ last.op = "connect"
    /\ last.err
    /\ out_size_[last.a] # 0
    /\ out_size_[last.a] # in_size_[last.b]
    /\ next_[last.a] # NULL
    /\ prev_[last.b] # NULL

\* ---------------------------------------------------------------- C2

\* C2 as claimed: after every connect that returned normally,
\* a.out_size = b.in_size and b.prev_ = a, the sentinel as source included.
C2_Claimed ==
    LastConnectOk =>
        /\ out_size_[last.a] = in_size_[last.b]
        /\ prev_[last.b] = last.a

\* C2 amended: after every connect that returned normally b.prev_ = a, and
\* a.out_size = b.in_size unless a.out_size = 0 (the sentinel), for which
\* connect compares nothing.
C2_ConnectOkSizesAgree ==
    LastConnectOk =>
        /\ out_size_[last.a] = in_size_[last.b] \/ out_size_[last.a] = 0
        /\ prev_[last.b] = last.a
        /\ next_[last.a] = last.b

\* a connect between two of the driver's layers has returned normally
C2_Witness ==
    /\ LastConnectOk
    /\ last.op = "connect"
    /\ last.a \in RealLayers
    /\ last.b \in RealLayers
    /\ last.a # last.b

\* ---------------------------------------------------------------- C3

\* C3: an add(l) that returns normally sets next_ of the previous tail to l
\* and prev_ of l to the previous tail, makes l the tail and keeps head_; an
\* add made while the sentinel is the tail (the first add after construction
\* is one) returns normally whatever l.in_size is.
C3_AddAppends ==
    [][\A l \in Layers :
         (last'.op = "add" /\ last'.b = l /\ nops' = nops + 1)
         => /\ ~last'.err =>
                 /\ next_'[tail_] = l
                 /\ prev_'[l] = tail_
                 /\ tail_' = l
                 /\ head_' = head_
            /\ tail_ = First =>
                 /\ ~last'.err
                 /\ next_'[First] = l]_vars

\* the first call after construction was an add of a layer with in_size 3,
\* and a second add has appended after it
C3_Witness ==
    /\ last.op = "add"
    /\ ~last.err
    /\ nops = 2
    /\ next_[First] \in RealLayers
    /\ in_size_[next_[First]] = 3
    /\ next_[next_[First]] = tail_
    /\ tail_ \in RealLayers
    /\ tail_ # next_[First]

\* ---------------------------------------------------------------- C4

\* C4: on a chain of N layers (following next_ from head_ ends at a null
\* link) layers::reset() calls reset on the layers of the chain in order,
\* each once: while it runs, the calls made are a prefix of the chain and l
\* is the next layer of the chain, and when it has returned the calls made
\* are the chain.
C4_ResetVisitsChainOnce ==
    IsChain =>
        /\ pc = "reset" =>
             /\ IsPrefix(log, ChainSeq)
             /\ cur = IF Len(log) < Len(ChainSeq)
                      THEN ChainSeq[Len(log) + 1] ELSE NULL
        /\ (pc = "idle" /\ last.op = "reset") => log = ChainSeq

\* reset() has returned on a chain of the sentinel and two layers
C4_Witness ==
    /\ pc = "idle"
    /\ last.op = "reset"
    /\ IsChain
    /\ Len(log) = 3

\* ---------------------------------------------------------------- C5

\* C5: in every state after construction head() is the sentinel first_ and
\* empty() is false.
C5_HeadIsSentinel == head = First /\ ~empty

\* an add has succeeded and a later add has thrown
C5_Witness ==
    /\ last.op = "add"
    /\ last.err
    /\ tail_ # First

\* ---------------------------------------------------------------- C6

C7_LinkedSizesAgree ==
    \A a \in Layers :
        (next_[a] # NULL /\ ~(a = First /\ out_size_[a] = 0))
        => out_size_[a] = in_size_[next_[a]]

\* two of the driver's layers are linked behind the sentinel
C7_Witness ==
    /\ next_[First] \in RealLayers
    /\ next_[next_[First]] \in RealLayers
    /\ next_[next_[First]] # next_[First]

\* ---------------------------------------------------------------- C8

\* C8: when first_.forward_propagation(v) has returned, output_ of the
\* sentinel is v; without a successor no call was made and the vector
\* returned is v; with a successor exactly the successor's
\* forward_propagation was called, with v, and the vector returned is the
\* one that call returned.
C8_ForwardPassThrough ==
    (pc = "idle" /\ last.op = "forward_propagation") =>
        /\ output_[First] = arg
        /\ IF next_[First] = NULL
           THEN sub = NoCall /\ ret = arg
           ELSE sub.callee = next_[First] /\ sub.arg = arg /\ ret = sub.ret

\* the sentinel, holding an older output, forwarded a non-empty vector to a
\* successor that returned another vector
C8_Witness ==
    /\ pc = "idle"
    /\ last.op = "forward_propagation"
    /\ next_[First] \in RealLayers
    /\ arg # <<>>
    /\ ret # arg
    /\ nops = 3

\* ---------------------------------------------------------------- C9

\* C9: a step that is first_.back_propagation(d, updater) or
\* first_.back_propagation_2nd(d2) returns its argument, invokes the updater
\* zero times and changes no field of any layer (sizes, links, output_,
\* prev_delta_, prev_delta2_, W_, b_, Whessian_, bhessian_).
C9_BackwardIdentity ==
    [][(last'.op \in {"back_propagation", "back_propagation_2nd"}
          /\ nops' = nops + 1)
       => /\ ret' = arg'
          /\ upd' = 0
          /\ UNCHANGED <<sizes, links, buffers, params, hessians>>]_vars

\* the sentinel, linked to a successor and holding a non-empty output,
\* returned a non-empty delta
C9_Witness ==
    /\ last.op \in {"back_propagation", "back_propagation_2nd"}
    /\ next_[First] \in RealLayers
    /\ output_[First] # <<>>
    /\ arg # <<>>
    /\ arg # output_[First]
    /\ ret = arg

\* ---------------------------------------------------------------- C10

\* x * n, exactly
RTimes(x, n) == Frac(x[1] * n, x[2])

\* C10: when layers::divide_hessian(n), n # 0, has returned, every element of
\* weight_hessian and bias_hessian of every layer of the chain is the value
\* it had when the call began divided by n, once (times n it is that value
\* again), so a sum of n samples has become their average; the Hessians of
\* layers outside the chain are as they were; and no step of the call
\* changes W_ or b_.
C10_DivideHessianAverages ==
    /\ []( (pc = "idle" /\ last.op = "divide_hessian") =>
             \A l \in Layers :
                 IF InChain(l)
                 THEN /\ DOMAIN Whessian_[l] = DOMAIN Hpre[l]
                      /\ DOMAIN bhessian_[l] = DOMAIN bHpre[l]
                      /\ \A i \in DOMAIN Whessian_[l] :
                           RTimes(Whessian_[l][i], den) = Hpre[l][i]
                      /\ \A i \in DOMAIN bhessian_[l] :
                           RTimes(bhessian_[l][i], den) = bHpre[l][i]
                 ELSE Whessian_[l] = Hpre[l] /\ bhessian_[l] = bHpre[l] )
    /\ [][(pc = "divide_hessian" \/ pc' = "divide_hessian")
            => UNCHANGED <<W_, b_>>]_vars

\* divide_hessian(2) has returned on a chain with a layer whose weights were
\* drawn and whose Hessians held the sum 1 + 2 of two samples: they hold 3/2
C10_Witness ==
    /\ pc = "idle"
    /\ last.op = "divide_hessian"
    /\ den = 2
    /\ \E l \in RealLayers :
         /\ InChain(l)
         /\ nsamp[l] = 2
         /\ Len(Whessian_[l]) = 2
         /\ Hpre[l][1] = Real(3)
         /\ Whessian_[l][1] = <<3, 2>>
         /\ Hpre[l][2] = Real(4)
         /\ Whessian_[l][2] = Real(2)
         /\ W_[l][1] # Real(0)

\* ---------------------------------------------------------------- C11

\* C11 as claimed: in every state the output buffer of every layer holds
\* out_size elements.
C11_Claimed == \A l \in Layers : Len(output_[l]) = out_size_[l]

\* C11 amended: the output buffer of a layer holds out_size elements from
\* construction until forward_propagation is called on the layer; the
\* sentinel's out_size stays 0, and its forward_propagation(v) replaces its
\* output by v, so that afterwards it holds as many elements as v; no other
\* call changes an output buffer.
C11_OutputSizedByInput ==
    /\ []( /\ \A l \in RealLayers : Len(output_[l]) = out_size_[l]
           /\ out_size_[First] = 0
           /\ last.op = "forward_propagation" => output_[First] = arg )
    /\ [][ /\ last'.op # "forward_propagation" => output_' = output_
           /\ last'.op = "forward_propagation" =>
                \A l \in RealLayers : output_'[l] = output_[l] ]_vars

\* the sentinel has forwarded a non-empty vector and a later call has left
\* its output at that length
C11_Witness ==
    /\ last.op \in {"back_propagation", "back_propagation_2nd", "add"}
    /\ Len(output_[First]) > out_size_[First]
    /\ next_[First] \in RealLayers

\* ---------------------------------------------------------------- C12

AllZero(v) == \A i \in DOMAIN v : v[i] = Real(0)

\* C12: after l->init_weight() every element of l's Hessians is zero,
\* whatever they held, and they keep their lengths; after a
\* l->divide_hessian(1) that follows it immediately they are zero still.
C12_InitWeightZeroesHessians ==
    /\ []( last.op = "init_weight" =>
             /\ AllZero(Whessian_[last.a]) /\ AllZero(bhessian_[last.a])
             /\ Len(Whessian_[last.a]) = Len(W_[last.a])
             /\ Len(bhessian_[last.a]) = Len(b_[last.a]) )
    /\ [][ ( /\ last.op = "init_weight"
             /\ last'.op = "layer_divide_hessian"
             /\ last'.a = last.a
             /\ den' = 1 )
           => /\ AllZero(Whessian_'[last.a]) /\ AllZero(bhessian_'[last.a])
              /\ Len(Whessian_'[last.a]) = Len(W_[last.a])
              /\ Len(bhessian_'[last.a]) = Len(b_[last.a]) ]_vars

\* a layer of the chain took two samples with its successor, which still
\* holds them; the layer was initialised and then divided by 1
C12_Witness ==
    /\ last.op = "layer_divide_hessian"
    /\ den = 1
    /\ last.a \in RealLayers
    /\ next_[last.a] \in RealLayers
    /\ nsamp[next_[last.a]] > 0
    /\ nsamp[last.a] = 0
    /\ Len(Whessian_[last.a]) = 2
    /\ AllZero(Whessian_[last.a])
    /\ ~AllZero(W_[last.a])
    /\ ~AllZero(bhessian_[next_[last.a]])

\* ---------------------------------------------------------------- C13

\* connect(a, b) finds the sizes of a and b compatible
Compatible(a, b) == out_size_[a] = 0 \/ in_size_[b] = out_size_[a]

\* C13: an add that throws the dimension mismatch changes neither head_ nor
\* tail_ nor any next_ or prev_ link (the rejected layer's included), so after
\* it tail_ is still the old tail; and every add of a layer whose in_size
\* suits the tail, the adds after a rejected add among them, succeeds and
\* links the layer behind that tail.
C13_FailedAddKeepsChain ==
    /\ []( (last.op = "add" /\ last.err) => tail_ = last.a /\ head_ = First )
    /\ [][ (last'.op = "add" /\ nops' = nops + 1) =>
             /\ last'.err =>
                  /\ head_' = head_ /\ tail_' = tail_
                  /\ next_' = next_ /\ prev_' = prev_
                  /\ ~Compatible(tail_, last'.b)
             /\ Compatible(tail_, last'.b) =>
                  /\ ~last'.err
                  /\ head_' = head_
                  /\ tail_' = last'.b
                  /\ next_'[tail_] = last'.b
                  /\ prev_'[last'.b] = tail_ ]_vars

\* a layer was rejected behind a tail that is not the sentinel and kept its
\* null links, and the caller can still add a layer that suits the old tail
C13_Witness ==
    /\ last.op = "add"
    /\ last.err
    /\ last.a \in RealLayers
    /\ prev_[last.b] = NULL
    /\ next_[last.b] = NULL
    /\ prev_[last.a] = First
    /\ nops < MaxOps
    /\ \E l \in Layers : Compatible(tail_, l)

\* ---------------------------------------------------------------- C14

\* the chain from head_ is the sentinel and then layers without repetition up
\* to tail_, whose next_ is null, and each prev_ names the layer before
WellFormed ==
    /\ IsChain
    /\ Len(ChainSeq) >= 1
    /\ ChainSeq[1] = First
    /\ ChainSeq[Len(ChainSeq)] = tail_
    /\ next_[tail_] = NULL
    /\ \A i, j \in 1..Len(ChainSeq) : ChainSeq[i] = ChainSeq[j] => i = j
    /\ \A k \in 2..Len(ChainSeq) : prev_[ChainSeq[k]] = ChainSeq[k - 1]

\* C14: when every added layer is fresh, the chain is well formed in every
\* state; an add that succeeds appends its layer to the sequence of the
\* chain, and every other step, a rejected add included, leaves the sequence
\* as it was.
C14_ChainWellFormedAppendOnly ==
    /\ []WellFormed
    /\ [][ IF last'.op = "add" /\ nops' = nops + 1 /\ ~last'.err
           THEN ChainSeq' = Append(ChainSeq, last'.b)
           ELSE ChainSeq' = ChainSeq ]_vars

\* every layer has been added and the last add succeeded: the chain is the
\* sentinel and all the other layers
C14_Witness ==
    /\ last.op = "add"
    /\ ~last.err
    /\ Len(ChainSeq) = NumLayers
    /\ last.b = tail_
    /\ prev_[tail_] = last.a
    /\ last.a # First

\* ---------------------------------------------------------------- C15

\* C15: a walk of layers::reset() or layers::divide_hessian(n) that has begun
\* returns, whatever adds succeeded before it, adds of a layer that is
\* already in the chain included.
C15_WalksTerminate ==
    (pc \in {"reset", "divide_hessian"}) ~> (pc = "idle")

====
